---------------------------- MODULE Spec2Model ----------------------------
(***************************************************************************)
(* PA Transfer Orchestrator v2 (src/pa_orchestrator_v2.py).                *)
(*                                                                         *)
(* The program is a Streamlit script: every agent interaction with a       *)
(* widget re-executes the whole script from the top (one "script pass"),   *)
(* st.button(...) is True only in the pass caused by the click on it,      *)
(* st.rerun() ends the current pass and schedules one more pass in which   *)
(* no button is True, and st.session_state is the only state that          *)
(* survives a pass.  One action of this model is one script pass.          *)
(*                                                                         *)
(* Text on which the code computes (strip, lower, upper, replace,          *)
(* startswith) is a sequence of one-character strings; text the code only  *)
(* copies is a TLA+ string.                                                *)
(***************************************************************************)
EXTENDS Integers, Sequences, FiniteSets, TLC

(***************************************************************************)
(* Text helpers: Python's str.strip, str.lower, str.upper.                 *)
(***************************************************************************)
Whitespace == {" ", "\t"}

LowerChar(c) ==
    CASE c = "Y" -> "y" [] c = "E" -> "e" [] c = "S" -> "s"
      [] c = "N" -> "n" [] c = "O" -> "o" [] c = "A" -> "a"
      [] OTHER -> c

UpperChar(c) ==
    CASE c = "y" -> "Y" [] c = "e" -> "E" [] c = "s" -> "S"
      [] c = "n" -> "N" [] c = "o" -> "O" [] c = "a" -> "A"
      [] OTHER -> c

Lower(s) == [i \in 1..Len(s) |-> LowerChar(s[i])]

Upper(s) == [i \in 1..Len(s) |-> UpperChar(s[i])]

RECURSIVE LStrip(_)
LStrip(s) == IF s # <<>> /\ Head(s) \in Whitespace THEN LStrip(Tail(s)) ELSE s

RECURSIVE RStrip(_)
RStrip(s) ==
    IF s # <<>> /\ s[Len(s)] \in Whitespace
    THEN RStrip(SubSeq(s, 1, Len(s) - 1))
    ELSE s

Strip(s) == RStrip(LStrip(s))

(***************************************************************************)
(* A record of the Database tab.  A flag column is either absent from the  *)
(* sheet (has = FALSE: row.get returns its default) or holds a text (an    *)
(* empty cell is read by pandas as NaN, and str(NaN) is "nan").            *)
(***************************************************************************)
COL_ACCOUNT == "Incoming PA existing account"
COL_PBI     == "Org_PBI_Status"
COL_TAX     == "Outgoing PA Tax Exempt"
COL_CARD    == "Outgoing PA physical card"

FlagCols == {COL_ACCOUNT, COL_PBI, COL_TAX, COL_CARD}

Absent == [has |-> FALSE, val |-> <<>>]

Cell(s) == [has |-> TRUE, val |-> s]

T_Yes == <<"Y", "e", "s">>
T_No  == <<"N", "o">>
T_NA  == <<"N", "/", "A">>

\* row.get(col, default) followed by str(...)
RowGet(row, col, default) == IF row[col].has THEN row[col].val ELSE default

(***************************************************************************)
(* run_rules_engine: yn, na and the four parsed flags.                     *)
(***************************************************************************)
\* faulty variant of yn: the value is not stripped
yn_NoStrip(row, col) == Lower(RowGet(row, col, T_No)) = <<"y", "e", "s">>

yn(row, col) == Lower(Strip(RowGet(row, col, T_No))) = <<"y", "e", "s">>

na(row, col) == Upper(Strip(RowGet(row, col, T_NA))) = <<"N", "/", "A">>

has_account(row) == yn(row, COL_ACCOUNT)

is_pbi(row) == yn(row, COL_PBI)

is_tax(row) == yn(row, COL_TAX)

has_phys_card(row) == yn(row, COL_CARD) /\ ~na(row, COL_CARD)

(***************************************************************************)
(* The texts of the rules engine.  A flag message is <<icon, text>>.       *)
(***************************************************************************)
TN_PROOF    == "Ask for Proof"
TN_PBI_CARD == "PBI (Physical Card) + Tax Considerations"
TN_PBI_TAX  == "PBI (No Active Physical Card) and Tax Considerations"
TN_PBI      == "PBI Only (No Active Physical Card)"
TN_TAX      == "Tax-Exempt Only Considerations"
TN_STANDARD == "Setting up for a Meeting / Call"

TemplateNames == {TN_PROOF, TN_PBI_CARD, TN_PBI_TAX, TN_PBI, TN_TAX, TN_STANDARD}

RULE_01    == <<"Rule 01 - Incoming PA has no existing WB account. Written proof required before any transfer.">>
RULE_14_22_CARD == <<"Rule 14+22 - PBI active (with physical card) AND Tax-Exempt. Both considerations apply.">>
RULE_14_22 == <<"Rule 14+22 - PBI active (no physical card) AND Tax-Exempt. Both considerations apply.">>
RULE_22    == <<"Rule 22 - PBI active. TreviPay update required post-transfer.">>
RULE_14    == <<"Rule 14 - Tax-Exempt account. Must deactivate and re-enroll after transfer.">>
RULE_00    == <<"Rule 00 - Standard transfer. No special flags. Schedule call to proceed.">>

F_NO_ACCOUNT == <<"!", "Incoming PA does NOT have an existing WB account">>
F_PBI        == <<"warn", "PBI active - TreviPay update required (2-3 days)">>
F_TAX        == <<"warn", "Tax-Exempt - must deactivate and re-enroll">>
F_CARD       == <<"warn", "Physical card present - 3-day deactivation notice">>
C_NO_CARD    == <<"ok", "No active physical card">>
C_NO_TAX     == <<"ok", "No tax-exempt flag">>
C_NO_PBI     == <<"ok", "No PBI flag">>
C_NO_TAX2    == <<"ok", "No Tax-Exempt flag">>
C_ACCOUNT    == <<"ok", "Incoming PA has existing account">>

\* the six branches of run_rules_engine (lines 153-182): what each assigns
\* to template_name, rule, flags and clears
Branch(name, rule_text, flags, clears) ==
    [template_name |-> name, rule |-> rule_text, flags |-> flags, clears |-> clears]

B_PROOF == Branch(TN_PROOF, RULE_01, <<F_NO_ACCOUNT>>, <<>>)

B_PBI_CARD == Branch(TN_PBI_CARD, RULE_14_22_CARD, <<F_PBI, F_TAX, F_CARD>>, <<>>)

\* faulty variant of B_PBI_TAX: the cleared message is forgotten
B_PBI_TAX_NothingCleared == Branch(TN_PBI_TAX, RULE_14_22, <<F_PBI, F_TAX>>, <<>>)

B_PBI_TAX == Branch(TN_PBI_TAX, RULE_14_22, <<F_PBI, F_TAX>>, <<C_NO_CARD>>)

B_PBI == Branch(TN_PBI, RULE_22, <<F_PBI>>, <<C_NO_TAX>>)

B_TAX == Branch(TN_TAX, RULE_14, <<F_TAX>>, <<C_NO_PBI>>)

B_STANDARD == Branch(TN_STANDARD, RULE_00, <<>>, <<C_NO_PBI, C_NO_TAX2, C_ACCOUNT>>)

\* a slip in the order of the chain: PBI alone is tested before the two
\* combined cases
FirstMatch_PbiFirst(account, pbi, tax, card) ==
    IF ~account THEN B_PROOF
    ELSE IF pbi THEN B_PBI
    ELSE IF pbi /\ tax /\ card THEN B_PBI_CARD
    ELSE IF pbi /\ tax THEN B_PBI_TAX
    ELSE IF tax THEN B_TAX
    ELSE B_STANDARD

\* the if / elif chain of run_rules_engine (lines 153, 157, 163, 169, 174, 179)
FirstMatch(account, pbi, tax, card) ==
    IF ~account THEN B_PROOF
    ELSE IF pbi /\ tax /\ card THEN B_PBI_CARD
    ELSE IF pbi /\ tax THEN B_PBI_TAX
    ELSE IF pbi THEN B_PBI
    ELSE IF tax THEN B_TAX
    ELSE B_STANDARD

RuleBranch(row) ==
    FirstMatch(has_account(row), is_pbi(row), is_tax(row), has_phys_card(row))

(***************************************************************************)
(* The Email_Templates tab: Template_Name -> Default_Subject, Body_Text.   *)
(* A body is a sequence of text pieces; "XXXXXX" and "PBS-XXXX" are the    *)
(* agent-name and ticket placeholders.                                     *)
(***************************************************************************)
TOKEN_AGENT  == "XXXXXX"
TOKEN_TICKET == "PBS-XXXX"

GENERIC_SUBJECT == "Walmart Business Update"

TemplateRow(subject, body) == [Default_Subject |-> subject, Body_Text |-> body]

\* faulty variant of LookupSubject: a name that is not in the table gets the
\* subject of the first row
LookupSubject_FirstRow(templates_df, template_name) ==
    IF template_name \in DOMAIN templates_df
    THEN templates_df[template_name].Default_Subject
    ELSE templates_df[CHOOSE n \in DOMAIN templates_df : TRUE].Default_Subject

\* templates_df[templates_df["Template_Name"] == template_name], then
\* .values[0] if not trow.empty else the fallback
LookupSubject(templates_df, template_name) ==
    IF template_name \in DOMAIN templates_df
    THEN templates_df[template_name].Default_Subject
    ELSE GENERIC_SUBJECT

LookupBody(templates_df, template_name) ==
    IF template_name \in DOMAIN templates_df
    THEN templates_df[template_name].Body_Text
    ELSE <<>>

\* run_rules_engine(row, templates_df)
run_rules_engine(row, templates_df) ==
    LET b == RuleBranch(row) IN
    [template_name |-> b.template_name,
     rule          |-> b.rule,
     subject       |-> LookupSubject(templates_df, b.template_name),
     template_body |-> LookupBody(templates_df, b.template_name),
     flags         |-> b.flags,
     clears        |-> b.clears]

(***************************************************************************)
(* generate_drafts: str.replace of the two placeholders, then the three    *)
(* f-strings.  A draft is the sequence of its pieces.                      *)
(***************************************************************************)
\* faulty variant of Replace: the ticket placeholder is left in place
Replace_SkipsTicket(s, old, new) ==
    [i \in 1..Len(s) |-> IF s[i] = old /\ old # TOKEN_TICKET THEN new ELSE s[i]]

\* s.replace(old, new) on a sequence of pieces
Replace(s, old, new) == [i \in 1..Len(s) |-> IF s[i] = old THEN new ELSE s[i]]

generate_drafts(row, template_body, subject, ticket, agent) ==
    LET body == Replace(Replace(template_body, TOKEN_AGENT, agent),
                        TOKEN_TICKET, ticket)
    IN [email |-> <<"Dear ", row.out_name, " (", row.out_email, ") and ",
                    row.in_name, " (", row.in_email, "),">>
                  \o body
                  \o <<"Best regards,", agent,
                       "Walmart Business Customer Care", "Ticket: ", ticket>>,
        sms   |-> <<"Hi ", row.out_name, " & ", row.in_name, " - This is ", agent,
                    " from Walmart Business Care. We received your Primary Admin transfer request for ",
                    row.org, " (Ticket: ", ticket,
                    "). Please check your email for next steps and respond within 2 business days.">>,
        vm    |-> <<"Hello, this is an automated message from Walmart Business Customer Care. We are calling regarding the Primary Admin transfer request for ",
                    row.org, ", ticket number ", ticket,
                    ". Please check your email from Walmart Business Care for next steps and respond within two business days. Thank you and have a great day.">>,
        subject |-> subject]

(***************************************************************************)
(* Stage "sending": the recipient phone number.                            *)
(***************************************************************************)
PhonePunct == {"-", " ", "(", ")"}

\* .replace("-", "").replace(" ", "").replace("(", "").replace(")", "")
RawPhone(phone) == SelectSeq(phone, LAMBDA c : c \notin PhonePunct)

recipient_phone(phone) ==
    LET raw == RawPhone(phone) IN
    IF raw # <<>> /\ Head(raw) = "+" THEN raw ELSE <<"+", "1">> \o raw

(***************************************************************************)
(* Bounds of the model.                                                    *)
(***************************************************************************)
\* the session log holds at most MaxLog entries
MaxLog == 2

\* the clock reads 0..MaxNow (seconds since the session started)
MaxNow == 1

\* seconds after which strftime('%m%d%H%M%S') repeats (a year, scaled down)
YearLen == 2

(***************************************************************************)
(* The sheet the workflow runs on.                                         *)
(***************************************************************************)
Row(org, cid, phone, account, pbi, tax, card) ==
    [org |-> org, CID |-> cid,
     out_name |-> "Olivia Out", out_email |-> "out@example.com",
     in_name |-> "Ian In", in_email |-> "in@example.com",
     phone |-> phone]
    @@ (COL_ACCOUNT :> account) @@ (COL_PBI :> pbi)
    @@ (COL_TAX :> tax) @@ (COL_CARD :> card)

ORG_A == "Acme"
ORG_B == "Birch"

\* Database tab: Acme has no account (Rule 01), Birch is a standard transfer
DbSheet ==
    (ORG_A :> Row(ORG_A, "C-1", <<"(", "5", ")", " ", "5", "-", "5">>,
                  Cell(T_No), Cell(T_Yes), Cell(T_No), Cell(T_NA)))
    @@
    (ORG_B :> Row(ORG_B, "C-2", <<"+", "4", "4", " ", "7">>,
                  Cell(T_Yes), Cell(T_No), Cell(T_No), Cell(T_No)))

\* Email_Templates tab
TemplateSheet ==
    (TN_PROOF :> TemplateRow("Proof needed",
        <<"I am ", TOKEN_AGENT, ". Please send written proof for ", TOKEN_TICKET>>))
    @@
    (TN_STANDARD :> TemplateRow("Schedule a call",
        <<"Let us set up a call about ", TOKEN_TICKET, ". Regards, ", TOKEN_AGENT>>))

\* the "Your Name" input of the sidebar ("Jessica R" is its default)
AgentNames == {"Jessica R"}

\* what the agent types into a "reason" text area
T_Reason == <<"d", "u", "p">>

Reasons == {<<>>, <<" ">>, T_Reason}

\* what the agent types over a draft
EDITED == <<"edited by the agent">>

(***************************************************************************)
(* State.                                                                  *)
(***************************************************************************)
VARIABLES
    \* st.session_state
    stage, selected_org, rule, template_name, email_draft, sms_draft,
    vm_draft, email_subject, ticket, session_log,
    \* sidebar widgets: "Your Name", whether Twilio Auth and SendGrid Key are
    \* both filled in, the "Live API Execution" toggle
    agent_name, creds, live_toggle,
    \* page widgets: the text area of stage "reject", the selectbox and the
    \* text area of stage "override", the filter radio of stage "select"
    reason, chosen, override_reason, filter_opt,
    \* the environment: the two sheet tabs, whether twilio and sendgrid
    \* could be imported, the clock
    db, templates, APIS_AVAILABLE, now,
    \* the most recent script pass: the button that was True in it ("" when
    \* none was), DATA_OK, the buttons it rendered, whether it ended in
    \* st.rerun()
    clicked, DATA_OK, page, rerun,
    \* what the most recent pass did: the result of run_rules_engine, the
    \* results dict of stage "sending", the channels whose dispatch raised,
    \* the channel services called, the tabs append_to_sheet was called on
    \* and what the calls returned
    triage, results, raised, external_calls, sheet_calls, wrote,
    \* history: the terminal transition of the current case and the length
    \* of the session log when it was taken; the most recent call of
    \* generate_drafts (the handler that made it, its arguments and what it
    \* returned); the execution mode that was in force when "Approve & Send"
    \* was clicked for the current case
    terminal, log_mark, drafted, approved_mode

session == <<stage, selected_org, rule, template_name, email_draft, sms_draft,
             vm_draft, email_subject, ticket, session_log>>

sidebar == <<agent_name, creds, live_toggle>>

widgets == <<reason, chosen, override_reason, filter_opt>>

sheets == <<db, templates, APIS_AVAILABLE>>

passvars == <<clicked, DATA_OK, page, rerun, triage, results, raised,
              external_calls, sheet_calls, wrote>>

history == <<terminal, log_mark, drafted, approved_mode>>

vars == <<session, sidebar, widgets, sheets, now, passvars, history>>

NONE == "None"

NoText == <<>>

Channels == {"Email", "SMS", "Voice"}

NoResults == [c \in Channels |-> "none"]

NoWrote == [history |-> FALSE, sim |-> FALSE]

\* the option a selectbox over the Template_Name column shows first
FirstTemplate(templates_df) == CHOOSE n \in DOMAIN templates_df : TRUE

(***************************************************************************)
(* The record filter of stage "select" (lines 329-342).                    *)
(***************************************************************************)
FilterOptions == {"All", "Flagged", "Clear"}

\* the columns lines 330-332 index
FilterCols == {COL_PBI, COL_TAX, COL_ACCOUNT}

\* db[col] raises KeyError when the sheet has no such column
FilterRaises == \E org \in DOMAIN db : \E col \in FilterCols : ~db[org][col].has

\* db[col].astype(str).str.lower() == "yes", for one row
LowerIsYes(row, col) == Lower(row[col].val) = <<"y", "e", "s">>

\* lines 329-333
_has_flag(row) ==
    \/ LowerIsYes(row, COL_PBI)
    \/ LowerIsYes(row, COL_TAX)
    \/ ~LowerIsYes(row, COL_ACCOUNT)

\* lines 335-340: the options of the selectbox under filter f
Listed(f) ==
    IF f = "Flagged" THEN {org \in DOMAIN db : _has_flag(db[org])}
    ELSE IF f = "Clear" THEN {org \in DOMAIN db : ~_has_flag(db[org])}
    ELSE DOMAIN db

orgs == Listed(filter_opt)

\* lines 344 and 351: the button is rendered when the selectbox has a
\* selection, and not at all when the filter raised
SelectButtons(f) ==
    IF ~FilterRaises /\ Listed(f) # {} THEN {"RunTriage"} ELSE {}

\* lines 286-299, and the first rendering of stage "select"
InitSession ==
    /\ stage = "select"
    /\ selected_org = NONE
    /\ rule = NoText
    /\ template_name = NONE
    /\ email_draft = NoText
    /\ sms_draft = NoText
    /\ vm_draft = NoText
    /\ email_subject = ""
    /\ ticket = NONE
    /\ session_log = <<>>
    /\ agent_name = "Jessica R"
    /\ creds = FALSE
    /\ live_toggle = FALSE
    /\ reason = <<>>
    /\ override_reason = <<>>
    /\ filter_opt = "All"
    /\ now = 0
    /\ clicked = ""
    /\ DATA_OK = TRUE
    /\ page = SelectButtons("All")
    /\ rerun = FALSE
    /\ triage = <<>>
    /\ results = NoResults
    /\ raised = {}
    /\ external_calls = {}
    /\ sheet_calls = {}
    /\ wrote = NoWrote
    /\ terminal = "none"
    /\ log_mark = 0
    /\ drafted = <<>>
    /\ approved_mode = "none"

Init ==
    /\ db = DbSheet
    /\ templates = TemplateSheet
    /\ chosen = FirstTemplate(TemplateSheet)
    /\ APIS_AVAILABLE = TRUE
    /\ InitSession

(***************************************************************************)
(* The parts of a script pass.                                             *)
(***************************************************************************)
\* lines 261-267: live_mode as the sidebar computes it
live_mode(cr, tg) == IF APIS_AVAILABLE /\ cr THEN tg ELSE FALSE

\* line 502: the mode the "Approve & Send" button names in its label
mode_label(live) == IF live THEN "LIVE" ELSE "SIMULATION"

\* how the pass ended
PassEnd(ok, pg, rr) ==
    /\ DATA_OK' = ok
    /\ page' = pg
    /\ rerun' = rr

NoTriage == triage' = <<>>

NoSend == results' = NoResults /\ raised' = {} /\ external_calls' = {}

NoSheet == sheet_calls' = {} /\ wrote' = NoWrote

\* a pass that ends in st.stop() or st.rerun() leaves the state of the page
\* widgets alone
KeepWidgets == UNCHANGED widgets

\* a pass that runs to its end keeps the state of the widgets it rendered
\* and drops the state of the others
Rendered(r, ch, ovr) ==
    /\ reason' = r
    /\ chosen' = ch
    /\ override_reason' = ovr
    /\ filter_opt' = "All"

NoPageWidgets == Rendered(<<>>, FirstTemplate(templates), <<>>)

\* faulty variant of Halt: a failed load sends the agent back to the record
\* list
Halt_ResetsStage ==
    /\ PassEnd(FALSE, {}, FALSE)
    /\ NoTriage /\ NoSend /\ NoSheet /\ KeepWidgets
    /\ stage' = "select"
    /\ UNCHANGED <<selected_org, rule, template_name, email_draft, sms_draft,
                   vm_draft, email_subject, ticket, session_log, history, now>>

\* lines 302-316: load_all_sheets raised; st.error, st.info, st.stop()
Halt ==
    /\ PassEnd(FALSE, {}, FALSE)
    /\ NoTriage /\ NoSend /\ NoSheet /\ KeepWidgets
    /\ UNCHANGED <<session, history, now>>

\* st.session_state.stage = s; st.rerun()
GoTo(s) ==
    /\ stage' = s
    /\ PassEnd(TRUE, {}, TRUE)
    /\ KeepWidgets

\* f"PBS-{datetime.now().strftime('%m%d%H%M%S')}": the year is not in it
strftime_mdHMS(t) == t % YearLen

TicketAt(t) == "PBS-" \o ToString(strftime_mdHMS(t))

\* row = db[db["Org name"] == org].iloc[0]
RowOf(org) == db[org]

(***************************************************************************)
(* Stage "select" (lines 322-355).                                         *)
(***************************************************************************)
\* the stage is rendered with the filter radio at f
RenderSelect(f) ==
    /\ PassEnd(TRUE, SelectButtons(f), FALSE)
    /\ NoTriage /\ NoSend /\ NoSheet
    /\ reason' = <<>>
    /\ chosen' = FirstTemplate(templates)
    /\ override_reason' = <<>>
    /\ filter_opt' = IF FilterRaises THEN "All" ELSE f
    /\ UNCHANGED <<session, history, now>>

\* lines 351-355, for the organization in the selectbox; dt is the time
\* that passed since the clock was last read
RunTriage(selected, dt) ==
    /\ now + dt <= MaxNow
    /\ now' = now + dt
    /\ selected_org' = selected
    /\ ticket' = TicketAt(now')
    /\ GoTo("triage")
    /\ NoTriage /\ NoSend /\ NoSheet
    /\ terminal' = "none"
    /\ log_mark' = 0
    /\ approved_mode' = "none"
    /\ UNCHANGED drafted
    /\ UNCHANGED <<rule, template_name, email_draft, sms_draft, vm_draft,
                   email_subject, session_log>>

(***************************************************************************)
(* Stage "triage" (lines 361-429).                                         *)
(***************************************************************************)
TriageButtons == {"Confirm", "Override", "BackToSelection"}

\* line 366
TriageOf(org) == run_rules_engine(RowOf(org), templates)

RenderTriage ==
    /\ triage' = <<TriageOf(selected_org)>>
    /\ PassEnd(TRUE, TriageButtons, FALSE)
    /\ NoSend /\ NoSheet /\ NoPageWidgets
    /\ UNCHANGED <<session, history, now>>

\* st.session_state.update({...}) of lines 412-420 and 449-457
StoreDrafts(new_rule, name, d) ==
    /\ rule' = new_rule
    /\ template_name' = name
    /\ email_draft' = d.email
    /\ sms_draft' = d.sms
    /\ vm_draft' = d.vm
    /\ email_subject' = d.subject

\* a call of generate_drafts made by handler by, and what it returned
DraftCall(by, row, template_body, subject, tk, agent, d) ==
    [by |-> by, args |-> <<row.org, template_body, subject, tk, agent>>, out |-> d]

\* faulty variant of Confirm: an SMS draft the session already holds is kept
\* in place of the generated one
Confirm_KeepsStoredSms(agent) ==
    LET t == TriageOf(selected_org)
        g == generate_drafts(RowOf(selected_org), t.template_body, t.subject,
                             ticket, agent)
        d == [g EXCEPT !.sms = IF sms_draft # <<>> THEN sms_draft ELSE @]
    IN /\ triage' = <<t>>
       /\ StoreDrafts(t.rule, t.template_name, d)
       /\ GoTo("draft")
       /\ NoSend /\ NoSheet
       /\ drafted' = <<DraftCall("Confirm", RowOf(selected_org), t.template_body,
                                 t.subject, ticket, agent, d)>>
       /\ UNCHANGED <<selected_org, ticket, session_log, terminal, log_mark, approved_mode, now>>

\* faulty variant of Confirm: the approval of the draft is skipped
Confirm_SkipsDraft(agent) ==
    LET t == TriageOf(selected_org)
        d == generate_drafts(RowOf(selected_org), t.template_body, t.subject,
                             ticket, agent)
    IN /\ triage' = <<t>>
       /\ StoreDrafts(t.rule, t.template_name, d)
       /\ GoTo("sending")
       /\ NoSend /\ NoSheet
       /\ drafted' = <<DraftCall("Confirm", RowOf(selected_org), t.template_body,
                                 t.subject, ticket, agent, d)>>
       /\ UNCHANGED <<selected_org, ticket, session_log, terminal, log_mark, approved_mode, now>>

\* faulty variant of Confirm: drafts the session already holds are shown
\* again in place of generating new ones
Confirm_ReusesDrafts(agent) ==
    LET t == TriageOf(selected_org)
        d == generate_drafts(RowOf(selected_org), t.template_body, t.subject,
                             ticket, agent)
    IN /\ triage' = <<t>>
       /\ IF drafted = <<>>
          THEN /\ StoreDrafts(t.rule, t.template_name, d)
               /\ drafted' = <<DraftCall("Confirm", RowOf(selected_org),
                                         t.template_body, t.subject, ticket,
                                         agent, d)>>
          ELSE UNCHANGED <<rule, template_name, email_draft, sms_draft,
                           vm_draft, email_subject, drafted>>
       /\ GoTo("draft")
       /\ NoSend /\ NoSheet
       /\ UNCHANGED <<selected_org, ticket, session_log, terminal, log_mark, approved_mode, now>>

\* lines 408-421
Confirm(agent) ==
    LET t == TriageOf(selected_org)
        d == generate_drafts(RowOf(selected_org), t.template_body, t.subject,
                             ticket, agent)
    IN /\ triage' = <<t>>
       /\ StoreDrafts(t.rule, t.template_name, d)
       /\ GoTo("draft")
       /\ NoSend /\ NoSheet
       /\ drafted' = <<DraftCall("Confirm", RowOf(selected_org), t.template_body,
                                 t.subject, ticket, agent, d)>>
       /\ UNCHANGED <<selected_org, ticket, session_log, terminal, log_mark, approved_mode, now>>

\* faulty variant of TriageLeave: going back to the record list forgets the
\* selected record
TriageLeave_ForgetsCase(s) ==
    /\ triage' = <<TriageOf(selected_org)>>
    /\ GoTo(s)
    /\ NoSend /\ NoSheet
    /\ selected_org' = IF s = "select" THEN NONE ELSE selected_org
    /\ UNCHANGED <<rule, template_name, email_draft, sms_draft,
                   vm_draft, email_subject, ticket, session_log, history, now>>

\* lines 423-429: a button that only changes the stage
TriageLeave(s) ==
    /\ triage' = <<TriageOf(selected_org)>>
    /\ GoTo(s)
    /\ NoSend /\ NoSheet
    /\ UNCHANGED <<selected_org, rule, template_name, email_draft, sms_draft,
                   vm_draft, email_subject, ticket, session_log, history, now>>

(***************************************************************************)
(* Stage "override" (lines 435-458).                                       *)
(***************************************************************************)
OVERRIDE_MARK == "OVERRIDE - "

\* lines 441-442 with the values ch and ovr in the two widgets
RenderOverride(ch, ovr) ==
    /\ PassEnd(TRUE, {"Apply"}, FALSE)
    /\ NoTriage /\ NoSend /\ NoSheet
    /\ Rendered(<<>>, ch, ovr)
    /\ UNCHANGED <<session, history, now>>

\* faulty variant of ApplyAccepted: the reason is not stripped
ApplyAccepted_NoStrip(ovr) == ovr # <<>>

\* line 444: the button was clicked and override_reason.strip() is truthy
ApplyAccepted(ovr) == Strip(ovr) # <<>>

\* faulty variant of Apply: the reason is stored without the marker
Apply_Unmarked(ch, ovr, agent) ==
    IF ApplyAccepted(ovr)
    THEN LET trow == templates[ch]
             d == generate_drafts(RowOf(selected_org), trow.Body_Text,
                                  trow.Default_Subject, ticket, agent)
         IN /\ StoreDrafts(ovr, ch, d)
            /\ GoTo("draft")
            /\ NoTriage /\ NoSend /\ NoSheet
            /\ drafted' = <<DraftCall("Apply", RowOf(selected_org), trow.Body_Text,
                                      trow.Default_Subject, ticket, agent, d)>>
            /\ UNCHANGED <<selected_org, ticket, session_log, terminal, log_mark, approved_mode, now>>
    ELSE RenderOverride(ch, ovr)

\* lines 444-458, the button clicked
Apply(ch, ovr, agent) ==
    IF ApplyAccepted(ovr)
    THEN LET trow == templates[ch]
             d == generate_drafts(RowOf(selected_org), trow.Body_Text,
                                  trow.Default_Subject, ticket, agent)
         IN /\ StoreDrafts(<<OVERRIDE_MARK>> \o ovr, ch, d)
            /\ GoTo("draft")
            /\ NoTriage /\ NoSend /\ NoSheet
            /\ drafted' = <<DraftCall("Apply", RowOf(selected_org), trow.Body_Text,
                                      trow.Default_Subject, ticket, agent, d)>>
            /\ UNCHANGED <<selected_org, ticket, session_log, terminal, log_mark, approved_mode, now>>
    ELSE RenderOverride(ch, ovr)

(***************************************************************************)
(* Stage "draft" (lines 464-517).                                          *)
(***************************************************************************)
DraftButtons == {"ApproveSend", "BackToTriage", "Reject"}

EDITED_SUBJECT == "edited subject"

\* the drafts the agent types over in the model; the voicemail script and
\* the subject are written back as they were generated
DraftFields == {"email", "sms"}

\* lines 480-499: the widgets' values are written back to the session; field
\* is the draft the agent typed over in this pass ("none": no draft)
WriteBack(field) ==
    /\ email_draft'   = IF field = "email" THEN EDITED ELSE email_draft
    /\ email_subject' = IF field = "subject" THEN EDITED_SUBJECT ELSE email_subject
    /\ sms_draft'     = IF field = "sms" THEN EDITED ELSE sms_draft
    /\ vm_draft'      = IF field = "vm" THEN EDITED ELSE vm_draft

RenderDraft(field) ==
    /\ WriteBack(field)
    /\ PassEnd(TRUE, DraftButtons, FALSE)
    /\ NoTriage /\ NoSend /\ NoSheet /\ NoPageWidgets
    /\ UNCHANGED <<stage, selected_org, rule, template_name, ticket,
                   session_log, history, now>>

\* faulty variant of DraftLeave: going back to triage discards the drafts
DraftLeave_DiscardsDrafts(s) ==
    /\ IF s = "triage"
       THEN /\ email_draft' = NoText /\ sms_draft' = NoText /\ vm_draft' = NoText
            /\ email_subject' = ""
       ELSE WriteBack("none")
    /\ GoTo(s)
    /\ NoTriage /\ NoSend /\ NoSheet
    /\ UNCHANGED <<selected_org, rule, template_name, ticket, session_log, now>>

\* faulty variant of DraftLeave: "Reject" returns to the record list
DraftLeave_RejectToSelect(s) ==
    /\ WriteBack("none")
    /\ GoTo(IF s = "reject" THEN "select" ELSE s)
    /\ NoTriage /\ NoSend /\ NoSheet
    /\ UNCHANGED <<selected_org, rule, template_name, ticket, session_log, now>>

\* lines 507-517: a button of stage "draft"; each only sets the stage
DraftLeave(s) ==
    /\ WriteBack("none")
    /\ GoTo(s)
    /\ NoTriage /\ NoSend /\ NoSheet
    /\ UNCHANGED <<selected_org, rule, template_name, ticket, session_log, now>>

(***************************************************************************)
(* Stage "sending" (lines 523-644).                                        *)
(***************************************************************************)
TAB_HISTORY == "Interaction_History"
TAB_SIM     == "Simulation_Log"

\* lines 102-129: append_to_sheet returns True only when the gspread
\* client exists and ws.append_row did not raise
append_to_sheet(client, written) == client /\ written

\* lines 539-582, one channel: failed is whether the live dispatch raised
ChannelResult(live, failed) ==
    IF live THEN (IF failed THEN "failed" ELSE "sent") ELSE "simulated"

\* faulty variant of SendResults: one try around the three channels, so
\* that the first failure skips the channels after it
SendResults_StopAtFirstFailure(live, fails) ==
    [c \in Channels |->
        IF c = "Email" THEN ChannelResult(live, c \in fails)
        ELSE IF c = "SMS"
             THEN (IF live /\ "Email" \in fails
                   THEN "none" ELSE ChannelResult(live, c \in fails))
             ELSE (IF live /\ {"Email", "SMS"} \cap fails # {}
                   THEN "none" ELSE ChannelResult(live, c \in fails))]

\* lines 537-582: the three channels, each in a try of its own
SendResults(live, fails) ==
    [c \in Channels |-> ChannelResult(live, c \in fails)]

\* faulty variant of ServicesCalled: the mode is not consulted
ServicesCalled_IgnoresMode(live) == Channels

\* lines 539, 557, 573: the three services are called in live mode only
ServicesCalled(live) == IF live THEN Channels ELSE {}

\* lines 597-603 and 609: the entry of the session log
SentEntry(row, live) ==
    [Org_ID        |-> row.CID,
     Final_Outcome |-> template_name,
     Action_Taken  |-> rule,
     Sent_To       |-> <<row.out_email, " / ">> \o recipient_phone(row.phone),
     Status        |-> IF live THEN "LIVE" ELSE "SIMULATED"]

\* faulty variant of LogAfterSend: the log holds the latest entry only
LogAfterSend_KeepsLatest(log, entry, wrote_history, wrote_sim) == <<entry>>

\* faulty variant of LogAfterSend: the entry is kept only when both sheet
\* writes succeeded
LogAfterSend_OnlyWhenWritten(log, entry, wrote_history, wrote_sim) ==
    IF wrote_history /\ wrote_sim THEN Append(log, entry) ELSE log

\* lines 608-609: "Always store in session memory too"
LogAfterSend(log, entry, wrote_history, wrote_sim) == Append(log, entry)

\* lines 524-633: everything stage "sending" does before its exit buttons
SendingBlock(live, fails, wrote_history, wrote_sim) ==
    /\ Len(session_log) < MaxLog
    /\ results' = SendResults(live, fails)
    /\ raised' = fails
    /\ external_calls' = ServicesCalled(live)
    /\ sheet_calls' = {TAB_HISTORY, TAB_SIM}
    /\ wrote' = [history |-> wrote_history, sim |-> wrote_sim]
    /\ session_log' = LogAfterSend(session_log, SentEntry(RowOf(selected_org), live),
                                   wrote_history, wrote_sim)
    /\ NoTriage
    /\ UNCHANGED <<selected_org, rule, template_name, email_draft, sms_draft,
                   vm_draft, email_subject, ticket, history, now>>

\* lines 619-644: the download button is offered when a write-back failed
SendingButtons(wrote_history, wrote_sim) ==
    {"ProcessAnother", "ReloadData"}
    \cup (IF wrote_history /\ wrote_sim THEN {} ELSE {"Download"})

RenderSending(live, fails, wrote_history, wrote_sim) ==
    /\ SendingBlock(live, fails, wrote_history, wrote_sim)
    /\ PassEnd(TRUE, SendingButtons(wrote_history, wrote_sim), FALSE)
    /\ NoPageWidgets
    /\ UNCHANGED stage

\* lines 637-644: an exit button, reached after the block above has run
SendingLeave(live, fails, wrote_history, wrote_sim) ==
    /\ SendingBlock(live, fails, wrote_history, wrote_sim)
    /\ GoTo("select")

(***************************************************************************)
(* Stage "reject" (lines 650-671).                                         *)
(***************************************************************************)
\* line 656 with the text r in the text area, no button True
RenderReject(r) ==
    /\ PassEnd(TRUE, {"SubmitRejection"}, FALSE)
    /\ NoTriage /\ NoSend /\ NoSheet
    /\ Rendered(r, FirstTemplate(templates), <<>>)
    /\ UNCHANGED <<session, history, now>>

\* lines 659-665
RejectEntry(row, r) ==
    [Org_ID        |-> row.CID,
     Final_Outcome |-> "REJECTED",
     Action_Taken  |-> r,
     Sent_To       |-> <<"N/A">>]

\* faulty variant of RejectAccepted: the reason is not stripped
RejectAccepted_NoStrip(r) == r # <<>>

\* line 658: the button was clicked and reason.strip() is truthy
RejectAccepted(r) == Strip(r) # <<>>

\* lines 658-671 with "Submit Rejection Log" clicked.  "Back to Records" is
\* created inside the if: it is rendered by this pass and not clicked in it
SubmitRejection(r, wrote_sim) ==
    IF RejectAccepted(r)
    THEN /\ Len(session_log) < MaxLog
         /\ sheet_calls' = {TAB_SIM}
         /\ wrote' = [history |-> FALSE, sim |-> wrote_sim]
         /\ session_log' = Append(session_log, RejectEntry(RowOf(selected_org), r))
         /\ PassEnd(TRUE, {"SubmitRejection", "BackToRecords"}, FALSE)
         /\ NoTriage /\ NoSend
         /\ Rendered(r, FirstTemplate(templates), <<>>)
         /\ UNCHANGED <<stage, selected_org, rule, template_name, email_draft,
                        sms_draft, vm_draft, email_subject, ticket, history, now>>
    ELSE RenderReject(r)

(***************************************************************************)
(* A pass in which no button is True: the stage is rendered again.         *)
(***************************************************************************)
Render(live) ==
    IF stage = "select" THEN RenderSelect(filter_opt)
    ELSE IF stage = "triage" THEN RenderTriage
    ELSE IF stage = "override" THEN RenderOverride(chosen, override_reason)
    ELSE IF stage = "draft" THEN RenderDraft("none")
    ELSE IF stage = "sending" THEN
        \E fails \in (IF live THEN SUBSET Channels ELSE {{}}) :
        \E client \in BOOLEAN, w1 \in BOOLEAN, w2 \in BOOLEAN :
            RenderSending(live, fails, append_to_sheet(client, w1),
                          append_to_sheet(client, w2))
    ELSE RenderReject(reason)

\* the agent can click button b: the last pass rendered it and no rerun is
\* pending
CanClick(b) == ~rerun /\ b \in page

Live == live_mode(creds, live_toggle)

(***************************************************************************)
(* The script passes, one action for each thing that starts one.           *)
(***************************************************************************)
\* the pass st.rerun() asked for
Rerun ==
    /\ rerun
    /\ clicked' = ""
    /\ \E ok \in BOOLEAN : IF ok THEN Render(Live) ELSE Halt
    /\ UNCHANGED <<sidebar, sheets>>

\* lines 242-244: "Refresh Data from Sheet"; the pass ends before the data
\* is loaded
ClickRefresh ==
    /\ ~rerun
    /\ clicked' = "Refresh"
    /\ PassEnd(DATA_OK, {}, TRUE)
    /\ NoTriage /\ NoSend /\ NoSheet /\ KeepWidgets
    /\ UNCHANGED <<session, history, now, sidebar, sheets>>

\* lines 248-267: one sidebar input is changed
SidebarChange ==
    /\ ~rerun
    /\ clicked' = ""
    /\ \/ /\ creds' = ~creds
          /\ live_toggle' = IF APIS_AVAILABLE /\ creds' THEN live_toggle ELSE FALSE
          /\ UNCHANGED agent_name
       \/ /\ APIS_AVAILABLE /\ creds
          /\ live_toggle' = ~live_toggle
          /\ UNCHANGED <<creds, agent_name>>
       \/ /\ agent_name' \in AgentNames \ {agent_name}
          /\ UNCHANGED <<creds, live_toggle>>
    /\ \E ok \in BOOLEAN :
        IF ok THEN Render(live_mode(creds', live_toggle')) ELSE Halt
    /\ UNCHANGED sheets

\* lines 334-342: the filter or the selectbox of stage "select" is changed
ChangeSelection ==
    /\ ~rerun /\ DATA_OK /\ stage = "select"
    /\ clicked' = ""
    /\ \E ok \in BOOLEAN :
        IF ok THEN \E f \in FilterOptions : RenderSelect(f) ELSE Halt
    /\ UNCHANGED <<sidebar, sheets>>

ClickRunTriage ==
    /\ CanClick("RunTriage")
    /\ clicked' = "RunTriage"
    /\ \E ok \in BOOLEAN :
        IF ok
        THEN \E selected \in orgs, dt \in {0, 1} : RunTriage(selected, dt)
        ELSE Halt
    /\ UNCHANGED <<sidebar, sheets>>

ClickConfirm ==
    /\ CanClick("Confirm")
    /\ clicked' = "Confirm"
    /\ \E ok \in BOOLEAN : IF ok THEN Confirm(agent_name) ELSE Halt
    /\ UNCHANGED <<sidebar, sheets>>

ClickOverride ==
    /\ CanClick("Override")
    /\ clicked' = "Override"
    /\ \E ok \in BOOLEAN : IF ok THEN TriageLeave("override") ELSE Halt
    /\ UNCHANGED <<sidebar, sheets>>

ClickBackToSelection ==
    /\ CanClick("BackToSelection")
    /\ clicked' = "BackToSelection"
    /\ \E ok \in BOOLEAN : IF ok THEN TriageLeave("select") ELSE Halt
    /\ UNCHANGED <<sidebar, sheets>>

\* lines 441-442: the selectbox or the text area of stage "override" is
\* changed
TypeOverride ==
    /\ ~rerun /\ DATA_OK /\ stage = "override"
    /\ clicked' = ""
    /\ \E ok \in BOOLEAN :
        IF ok
        THEN \/ \E ch \in DOMAIN templates : RenderOverride(ch, override_reason)
             \/ \E ovr \in Reasons : RenderOverride(chosen, ovr)
        ELSE Halt
    /\ UNCHANGED <<sidebar, sheets>>

ClickApply ==
    /\ CanClick("Apply")
    /\ clicked' = "Apply"
    /\ \E ok \in BOOLEAN :
        IF ok THEN Apply(chosen, override_reason, agent_name) ELSE Halt
    /\ UNCHANGED <<sidebar, sheets>>

\* lines 480-499: the agent types over one of the drafts
EditDraft ==
    /\ ~rerun /\ DATA_OK /\ stage = "draft"
    /\ clicked' = ""
    /\ \E ok \in BOOLEAN :
        IF ok THEN \E field \in DraftFields : RenderDraft(field) ELSE Halt
    /\ UNCHANGED <<sidebar, sheets>>

ClickApproveSend ==
    /\ CanClick("ApproveSend")
    /\ clicked' = "ApproveSend"
    /\ \E ok \in BOOLEAN :
        IF ok
        THEN /\ DraftLeave("sending")
             /\ terminal' = "sending"
             /\ log_mark' = Len(session_log)
             /\ approved_mode' = mode_label(Live)
             /\ UNCHANGED drafted
        ELSE Halt
    /\ UNCHANGED <<sidebar, sheets>>

ClickBackToTriage ==
    /\ CanClick("BackToTriage")
    /\ clicked' = "BackToTriage"
    /\ \E ok \in BOOLEAN :
        IF ok THEN DraftLeave("triage") /\ UNCHANGED history ELSE Halt
    /\ UNCHANGED <<sidebar, sheets>>

ClickReject ==
    /\ CanClick("Reject")
    /\ clicked' = "Reject"
    /\ \E ok \in BOOLEAN :
        IF ok
        THEN /\ DraftLeave("reject")
             /\ terminal' = "reject"
             /\ log_mark' = Len(session_log)
             /\ UNCHANGED <<drafted, approved_mode>>
        ELSE Halt
    /\ UNCHANGED <<sidebar, sheets>>

\* lines 626-633: the download button re-executes the script
ClickDownload ==
    /\ CanClick("Download")
    /\ clicked' = "Download"
    /\ \E ok \in BOOLEAN : IF ok THEN Render(Live) ELSE Halt
    /\ UNCHANGED <<sidebar, sheets>>

\* the exit buttons of stage "sending", "Process Another Record" and
\* "Reload Data from Sheet" (which also clears the cache of the sheet)
ClickExit(b) ==
    /\ CanClick(b)
    /\ clicked' = b
    /\ \E ok \in BOOLEAN :
        IF ok
        THEN \E fails \in (IF Live THEN SUBSET Channels ELSE {{}}) :
             \E client \in BOOLEAN, w1 \in BOOLEAN, w2 \in BOOLEAN :
                SendingLeave(Live, fails, append_to_sheet(client, w1),
                             append_to_sheet(client, w2))
        ELSE Halt
    /\ UNCHANGED <<sidebar, sheets>>

ClickProcessAnother == ClickExit("ProcessAnother")

ClickReloadData == ClickExit("ReloadData")

\* line 656: the agent types into the text area of stage "reject"
TypeReason ==
    /\ ~rerun /\ DATA_OK /\ stage = "reject"
    /\ clicked' = ""
    /\ \E ok \in BOOLEAN :
        IF ok THEN \E r \in Reasons : RenderReject(r) ELSE Halt
    /\ UNCHANGED <<sidebar, sheets>>

ClickSubmitRejection ==
    /\ CanClick("SubmitRejection")
    /\ clicked' = "SubmitRejection"
    /\ \E ok \in BOOLEAN :
        IF ok
        THEN \E client \in BOOLEAN, w \in BOOLEAN :
                SubmitRejection(reason, append_to_sheet(client, w))
        ELSE Halt
    /\ UNCHANGED <<sidebar, sheets>>

\* lines 658 and 669: in the pass this click starts, "Submit Rejection Log"
\* is False, so the if is skipped and line 669 is not executed
ClickBackToRecords ==
    /\ CanClick("BackToRecords")
    /\ clicked' = "BackToRecords"
    /\ \E ok \in BOOLEAN : IF ok THEN RenderReject(reason) ELSE Halt
    /\ UNCHANGED <<sidebar, sheets>>

Next ==
    \/ Rerun
    \/ ClickRefresh
    \/ SidebarChange
    \/ ChangeSelection
    \/ ClickRunTriage
    \/ ClickConfirm
    \/ ClickOverride
    \/ ClickBackToSelection
    \/ TypeOverride
    \/ ClickApply
    \/ EditDraft
    \/ ClickApproveSend
    \/ ClickBackToTriage
    \/ ClickReject
    \/ ClickDownload
    \/ ClickProcessAnother
    \/ ClickReloadData
    \/ TypeReason
    \/ ClickSubmitRejection
    \/ ClickBackToRecords

Spec == Init /\ [][Next]_vars

(***************************************************************************)
(* The rules engine on every record: the Database tab holds one record     *)
(* whose four flag columns are drawn from FlagCells; the agent runs        *)
(* triage on it, confirms or goes back.                                    *)
(***************************************************************************)
T_YesPadded == <<" ", "y", "E", "s", "\t">>
T_NaPadded  == <<" ", "n", "/", "a", " ">>
T_NaN       == <<"n", "a", "n">>

FlagCells ==
    {Absent, Cell(T_Yes), Cell(T_YesPadded), Cell(T_No), Cell(T_NA),
     Cell(T_NaPadded), Cell(T_NaN)}

InitRules ==
    /\ \E a \in FlagCells, p \in FlagCells, t \in FlagCells, c \in FlagCells :
          db = (ORG_A :> Row(ORG_A, "C-1", <<"5", "5", "5">>, a, p, t, c))
    /\ templates = TemplateSheet
    /\ chosen = FirstTemplate(TemplateSheet)
    /\ APIS_AVAILABLE = TRUE
    /\ InitSession

NextRules ==
    \/ Rerun
    \/ ChangeSelection
    \/ ClickRunTriage
    \/ ClickConfirm
    \/ ClickBackToSelection

SpecRules == InitRules /\ [][NextRules]_vars

(***************************************************************************)
(* Drafts for every record: the Database tab holds one record whose four   *)
(* flag columns are Yes or No, so that four of the six template names are  *)
(* not in the Email_Templates tab; the agent may type a name that is one   *)
(* of the placeholders, and works up to stage "draft" and back.            *)
(***************************************************************************)
YesNoCells == {Cell(T_Yes), Cell(T_No)}

DraftAgentNames == {"Jessica R", TOKEN_AGENT, TOKEN_TICKET}

InitDrafts ==
    /\ \E a \in YesNoCells, p \in YesNoCells, t \in YesNoCells, c \in YesNoCells :
          db = (ORG_A :> Row(ORG_A, "C-1", <<"5", "5", "5">>, a, p, t, c))
    /\ templates = TemplateSheet
    /\ chosen = FirstTemplate(TemplateSheet)
    /\ APIS_AVAILABLE = TRUE
    /\ InitSession

\* line 248: the agent types another name into "Your Name"
ChangeAgentName ==
    /\ ~rerun
    /\ clicked' = ""
    /\ agent_name' \in DraftAgentNames \ {agent_name}
    /\ \E ok \in BOOLEAN : IF ok THEN Render(Live) ELSE Halt
    /\ UNCHANGED <<creds, live_toggle, sheets>>

NextDrafts ==
    \/ Rerun
    \/ ChangeAgentName
    \/ ClickRunTriage
    \/ ClickConfirm
    \/ ClickOverride
    \/ TypeOverride
    \/ ClickApply
    \/ EditDraft
    \/ ClickBackToTriage

SpecDrafts == InitDrafts /\ [][NextDrafts]_vars

(***************************************************************************)
(* Properties.                                                             *)
(***************************************************************************)
Last(q) == q[Len(q)]

ExitButtons == {"ProcessAnother", "ReloadData"}

\* the most recent pass executed lines 524-633 of stage "sending"
SendingPassRan ==
    /\ DATA_OK
    /\ \/ stage = "sending" /\ ~rerun
       \/ stage = "select" /\ rerun /\ clicked \in ExitButtons

\* this step appended an entry of a sending pass (one with a Status)
SentEntryAppended ==
    /\ Len(session_log') > Len(session_log)
    /\ "Status" \in DOMAIN Last(session_log')

\* C1: a channel is dispatched (live or simulated) and a sent-type entry is
\* appended to the session log only in a pass that starts in stage
\* "sending", and the stage becomes "sending" only in the pass of a click
\* on "Approve & Send", which stage "draft" had rendered.
C1_SendOnlyAfterApproval ==
    [][ /\ (results' # NoResults \/ external_calls' # {} \/ SentEntryAppended)
            => stage = "sending"
        /\ (stage # "sending" /\ stage' = "sending")
            => (stage = "draft" /\ "ApproveSend" \in page
                /\ clicked' = "ApproveSend")
      ]_vars

C1_Witness ==
    /\ stage = "sending" /\ terminal = "sending"
    /\ results # NoResults
    /\ session_log # <<>> /\ "Status" \in DOMAIN Last(session_log)

\* C2: between "Approve & Send" and the return to "select" the session log
\* grows by exactly one entry, and after the case entered stage "reject" it
\* grows by at most one entry, whatever the agent does in between.
C2_ExactlyOneLogEntry ==
    /\ (terminal = "sending" /\ stage = "select")
         => Len(session_log) = log_mark + 1
    /\ (terminal \in {"sending", "reject"})
         => Len(session_log) <= log_mark + 1

\* C3: every execution of the sending stage appends one entry (with its
\* Status) to the session log and runs to its end, whatever the two
\* append_to_sheet calls return.
C3_LogDespiteWriteFailure ==
    [][ SendingPassRan'
          => /\ Len(session_log') = Len(session_log) + 1
             /\ SubSeq(session_log', 1, Len(session_log)) = session_log
             /\ "Status" \in DOMAIN Last(session_log')
             /\ sheet_calls' = {TAB_HISTORY, TAB_SIM}
             /\ (rerun' \/ ExitButtons \subseteq page')
      ]_vars

C3_Witness ==
    /\ SendingPassRan
    /\ ~wrote.history /\ ~wrote.sim
    /\ "Download" \in page
    /\ Len(session_log) = log_mark + 1

\* C4: a sending pass in simulation mode calls none of the three services,
\* records all three results as simulated and logs Status SIMULATED.
C4_SimulationCallsNothing ==
    (SendingPassRan /\ ~Live)
      => /\ external_calls = {}
         /\ \A c \in Channels : results[c] = "simulated"
         /\ session_log # <<>>
         /\ Last(session_log).Status = "SIMULATED"

C4_Witness ==
    /\ SendingPassRan /\ ~Live
    /\ results["Voice"] = "simulated"
    /\ Last(session_log).Status = "SIMULATED"

\* C5: a sending pass in live mode attempts all three channels; a channel
\* whose dispatch raised gets a failure result, every other channel its own
\* result, and both sheet appends and the session-log append still run.
C5_ChannelFailuresIsolated ==
    (SendingPassRan /\ Live)
      => /\ external_calls = Channels
         /\ \A c \in Channels :
               results[c] = IF c \in raised THEN "failed" ELSE "sent"
         /\ sheet_calls = {TAB_HISTORY, TAB_SIM}
         /\ session_log # <<>>
         /\ Last(session_log).Status = "LIVE"

C5_Witness ==
    /\ SendingPassRan /\ Live
    /\ raised = {"Email", "Voice"}
    /\ results["Email"] = "failed"
    /\ results["SMS"] = "sent"
    /\ Len(session_log) = log_mark + 1

\* C6: run_rules_engine picks the template by first match over the four
\* parsed flags: no account gives "Ask for Proof" whatever the other flags;
\* else PBI, tax and card; else PBI and tax; else PBI; else tax; else the
\* standard template.
C6_FirstMatchTemplate ==
    triage # <<>> =>
        LET row == RowOf(selected_org)
            a == has_account(row)
            p == is_pbi(row)
            t == is_tax(row)
            c == has_phys_card(row)
            n == triage[1].template_name
        IN /\ (~a => n = TN_PROOF)
           /\ (a /\ p /\ t /\ c => n = TN_PBI_CARD)
           /\ (a /\ p /\ t /\ ~c => n = TN_PBI_TAX)
           /\ (a /\ p /\ ~t => n = TN_PBI)
           /\ (a /\ ~p /\ t => n = TN_TAX)
           /\ (a /\ ~p /\ ~t => n = TN_STANDARD)

C6_Witness ==
    /\ triage # <<>>
    /\ ~has_account(RowOf(selected_org))
    /\ is_pbi(RowOf(selected_org)) /\ is_tax(RowOf(selected_org))
    /\ has_phys_card(RowOf(selected_org))
    /\ triage[1].template_name = TN_PROOF

\* C7: the numbers of raised and cleared messages are fixed per branch:
\* 3 and 0 for PBI, tax and card; 2 and 1 for PBI and tax; 1 and 1 for PBI
\* only and for tax only; 0 and 3 for the default; no account gives the one
\* raised message "Incoming PA does NOT have an existing WB account" and
\* nothing cleared.
C7_FlagCounts ==
    triage # <<>> =>
        LET row == RowOf(selected_org)
            a == has_account(row)
            p == is_pbi(row)
            t == is_tax(row)
            c == has_phys_card(row)
            nf == Len(triage[1].flags)
            nc == Len(triage[1].clears)
        IN /\ (a /\ p /\ t /\ c => nf = 3 /\ nc = 0)
           /\ (a /\ p /\ t /\ ~c => nf = 2 /\ nc = 1)
           /\ (a /\ p /\ ~t => nf = 1 /\ nc = 1)
           /\ (a /\ ~p /\ t => nf = 1 /\ nc = 1)
           /\ (a /\ ~p /\ ~t => nf = 0 /\ nc = 3)
           /\ (~a => /\ nf = 1 /\ nc = 0
                     /\ \E i \in 1..Len(triage[1].flags[1]) :
                          triage[1].flags[1][i]
                            = "Incoming PA does NOT have an existing WB account")

C7_Witness ==
    /\ triage # <<>>
    /\ has_account(RowOf(selected_org))
    /\ is_pbi(RowOf(selected_org)) /\ is_tax(RowOf(selected_org))
    /\ ~has_phys_card(RowOf(selected_org))
    /\ Len(triage[1].flags) = 2 /\ Len(triage[1].clears) = 1

\* the stage changes the workflow is documented to have
ClaimedTransitions ==
    {<<"select", "triage">>, <<"triage", "draft">>, <<"triage", "override">>,
     <<"override", "draft">>, <<"draft", "sending">>, <<"draft", "triage">>,
     <<"draft", "reject">>, <<"sending", "select">>, <<"reject", "select">>}

\* once stage "sending" has been rendered, its exit buttons are on the page
\* and the pass of a click on one of them sets the stage to "select"
SendingExitAvailable ==
    /\ [](stage = "sending" /\ ~rerun /\ DATA_OK => ExitButtons \subseteq page)
    /\ [][(clicked' \in ExitButtons /\ DATA_OK') => stage' = "select"]_vars

\* C8 as stated: every change of stage is one of the nine claimed ones, and
\* from "sending" an action that returns to "select" is available.
C8_OnlyClaimedTransitions ==
    /\ [][stage' # stage => <<stage, stage'>> \in ClaimedTransitions]_vars
    /\ SendingExitAvailable

\* C8 as amended: the claimed changes of stage and triage to select ("Back
\* to Record Selection") are the only ones, and from "sending" an action
\* that returns to "select" is available.
C8_TransitionsWithBackToSelection ==
    /\ [][stage' # stage
            => <<stage, stage'>> \in ClaimedTransitions \cup {<<"triage", "select">>}
       ]_vars
    /\ SendingExitAvailable

C8_Witness == stage = "select" /\ rerun /\ clicked = "BackToSelection"

\* C9: the pass of a click on "Back to Records" sets the stage to "select".
C9_BackToRecordsReturns ==
    [][(clicked' = "BackToRecords" /\ DATA_OK') => stage' = "select"]_vars

\* what the code does instead: a case that entered stage "reject" stays there
RejectIsNeverLeft == [][stage = "reject" => stage' = "reject"]_vars

Blank(r) == \A i \in 1..Len(r) : r[i] \in Whitespace

\* C10: the pass of a click on "Submit Rejection Log" with an empty or
\* whitespace-only reason appends nothing to the session log, calls
\* append_to_sheet on no tab and leaves the stage "reject".
C10_BlankReasonLogsNothing ==
    [][ (clicked' = "SubmitRejection" /\ DATA_OK' /\ Blank(reason))
          => /\ stage = "reject" /\ stage' = "reject"
             /\ session_log' = session_log
             /\ sheet_calls' = {}
             /\ "BackToRecords" \notin page'
      ]_vars

C10_Witness ==
    /\ clicked = "SubmitRejection" /\ DATA_OK
    /\ stage = "reject"
    /\ reason = <<" ">>
    /\ Len(session_log) = log_mark

\* C11: the pass of a click on "Apply & Generate Drafts" with an empty or
\* whitespace-only reason leaves the stage "override" and the stored rule,
\* template name and drafts as they were; with any other reason it sets the
\* stage to "draft", and stage "override" is left in no other way.
C11_BlankOverrideChangesNothing ==
    [][ /\ (clicked' = "Apply" /\ DATA_OK')
            => /\ stage = "override"
               /\ IF Blank(override_reason)
                  THEN /\ stage' = "override"
                       /\ UNCHANGED <<rule, template_name, email_draft,
                                      sms_draft, vm_draft, email_subject>>
                  ELSE stage' = "draft"
        /\ (stage = "override" /\ stage' # "override")
            => /\ stage' = "draft"
               /\ clicked' = "Apply"
               /\ ~Blank(override_reason)
      ]_vars

C11_Witness ==
    /\ clicked = "Apply" /\ DATA_OK /\ ~rerun
    /\ stage = "override"
    /\ override_reason = <<" ">>
    /\ rule = NoText

\* the text begins with the override marker
StartsWithOverride(text) == text # <<>> /\ Head(text) = OVERRIDE_MARK

\* C12: in stages "draft" and "sending" the stored rule begins with the
\* override marker exactly when the drafts were last generated by "Apply &
\* Generate Drafts" of stage "override"; when they were last generated by
\* "Confirm", the stored rule and template name are those run_rules_engine
\* returns for the selected record, and that rule does not begin with the
\* marker.
C12_OverrideMarked ==
    stage \in {"draft", "sending"} =>
        /\ drafted # <<>>
        /\ StartsWithOverride(rule) <=> drafted[1].by = "Apply"
        /\ drafted[1].by = "Confirm" =>
              LET t == run_rules_engine(RowOf(selected_org), templates)
              IN /\ rule = t.rule
                 /\ template_name = t.template_name
                 /\ ~StartsWithOverride(t.rule)

C12_Witness ==
    /\ stage = "sending" /\ ~rerun /\ DATA_OK
    /\ drafted # <<>> /\ drafted[1].by = "Apply"
    /\ StartsWithOverride(rule)
    /\ template_name = TN_STANDARD

\* the template run_rules_engine chose in the last pass is not in the table
TemplateAbsent ==
    triage # <<>> /\ triage[1].template_name \notin DOMAIN templates

\* C13: when the template name run_rules_engine selects is not in the
\* template table, it returns the subject "Walmart Business Update" and the
\* empty body together with the name, rule and messages of the branch, stage
\* "triage" renders its buttons, and the clicks on "Confirm" and "Override
\* Template" move the stage to "draft" and to "override".
C13_MissingTemplateFallsBack ==
    /\ [](TemplateAbsent =>
            LET row == RowOf(selected_org)
                b == FirstMatch(has_account(row), is_pbi(row), is_tax(row),
                                has_phys_card(row))
            IN /\ triage[1].subject = "Walmart Business Update"
               /\ triage[1].template_body = <<>>
               /\ triage[1].template_name = b.template_name
               /\ triage[1].rule = b.rule
               /\ triage[1].flags = b.flags
               /\ triage[1].clears = b.clears
               /\ (stage = "triage" /\ ~rerun
                     => {"Confirm", "Override"} \subseteq page))
    /\ [][ (TemplateAbsent' /\ DATA_OK' /\ stage = "triage")
             => /\ clicked' = "Confirm"
                   => stage' = "draft" /\ email_subject' = "Walmart Business Update"
                /\ clicked' = "Override" => stage' = "override"
         ]_vars

C13_Witness ==
    /\ TemplateAbsent
    /\ stage = "draft" /\ clicked = "Confirm" /\ DATA_OK
    /\ template_name = TN_PBI_TAX
    /\ email_subject = "Walmart Business Update"

\* C14: the ticket and the selected record change only in the pass of a
\* click on "Run Triage" in stage "select"; every other pass leaves both as
\* they were.
C14_CaseSetOnlyByRunTriage ==
    [][ (ticket' # ticket \/ selected_org' # selected_org)
          => /\ stage = "select" /\ "RunTriage" \in page
             /\ clicked' = "RunTriage"
             /\ stage' = "triage"
      ]_vars

C14_Witness ==
    /\ stage = "reject" /\ clicked = "SubmitRejection" /\ DATA_OK
    /\ selected_org = ORG_B
    /\ ticket = TicketAt(now)
    /\ StartsWithOverride(rule)
    /\ session_log # <<>>

\* C15: the pass of a click on "Back to Triage" changes the stage from
\* "draft" to "triage" and nothing else of the session: no channel is
\* dispatched, append_to_sheet is not called, and the session log, the
\* ticket, the selected record, the rule, the template name and the drafts
\* are as before.
C15_BackToTriageOnlyChangesStage ==
    [][ (clicked' = "BackToTriage" /\ DATA_OK')
          => /\ stage = "draft" /\ stage' = "triage"
             /\ UNCHANGED <<selected_org, rule, template_name, email_draft,
                            sms_draft, vm_draft, email_subject, ticket,
                            session_log>>
             /\ results' = NoResults /\ external_calls' = {}
             /\ sheet_calls' = {}
      ]_vars

C15_Witness ==
    /\ clicked = "BackToTriage" /\ DATA_OK /\ rerun
    /\ stage = "triage"
    /\ email_draft = EDITED
    /\ sms_draft # NoText
    /\ ticket # NONE

Contains(text, piece) == \E i \in 1..Len(text) : text[i] = piece

Tokens == {TOKEN_AGENT, TOKEN_TICKET}

\* the email of the last call of generate_drafts has neither placeholder and
\* has the agent name and the ticket the call was given
EmailFilledIn ==
    LET e == drafted[1].out.email
    IN /\ ~Contains(e, TOKEN_AGENT)
       /\ ~Contains(e, TOKEN_TICKET)
       /\ Contains(e, drafted[1].args[5])
       /\ Contains(e, drafted[1].args[4])

\* the last call of generate_drafts was given a body with both placeholders
BodyHasTokens ==
    /\ drafted # <<>>
    /\ Contains(drafted[1].args[2], TOKEN_AGENT)
    /\ Contains(drafted[1].args[2], TOKEN_TICKET)

\* C17 as stated: for every body with the two placeholders, every agent name
\* and every ticket, the email generate_drafts returns has neither
\* placeholder and has the agent name and the ticket.
C17_TokensReplaced == BodyHasTokens => EmailFilledIn

\* C17 as amended: the same for every agent name and ticket that are not
\* themselves a placeholder.
C17_TokensReplacedForPlainNames ==
    (/\ BodyHasTokens
     /\ drafted[1].args[5] \notin Tokens
     /\ drafted[1].args[4] \notin Tokens) => EmailFilledIn

C17_Witness ==
    /\ BodyHasTokens
    /\ drafted[1].args[5] = "Jessica R"
    /\ drafted[1].args[4] = TicketAt(now)
    /\ EmailFilledIn
    /\ email_draft = drafted[1].out.email

\* C18: a pass in which the tables could not be loaded leaves the stage, the
\* ticket, the selected record, the rule, the template name, the drafts and
\* the session log as they were, runs no stage (no triage, no channel
\* result, no service call, no append_to_sheet) and renders no button.
C18_LoadFailureHalts ==
    [][ ~DATA_OK'
          => /\ UNCHANGED <<stage, selected_org, rule, template_name, email_draft,
                            sms_draft, vm_draft, email_subject, ticket,
                            session_log>>
             /\ triage' = <<>>
             /\ results' = NoResults /\ external_calls' = {}
             /\ sheet_calls' = {}
             /\ page' = {}
      ]_vars

C18_Witness ==
    /\ ~DATA_OK /\ ~rerun
    /\ stage = "sending" /\ terminal = "sending"
    /\ Len(session_log) = log_mark
    /\ results = NoResults /\ sheet_calls = {}

\* C19: a pass leaves the session log as it was or appends one entry to it,
\* the entries it held staying as they were and where they were; an entry
\* is appended only by a pass that starts in stage "sending" (an entry with
\* a Status) or by the pass of a click on "Submit Rejection Log" with a
\* non-blank reason in stage "reject" (an entry REJECTED).
C19_LogAppendOnly ==
    [][ \/ session_log' = session_log
        \/ /\ Len(session_log') = Len(session_log) + 1
           /\ SubSeq(session_log', 1, Len(session_log)) = session_log
           /\ \/ /\ stage = "sending"
                 /\ "Status" \in DOMAIN Last(session_log')
              \/ /\ stage = "reject"
                 /\ clicked' = "SubmitRejection"
                 /\ ~Blank(reason)
                 /\ Last(session_log').Final_Outcome = "REJECTED"
      ]_vars

C19_Witness ==
    /\ stage = "reject" /\ clicked = "SubmitRejection"
    /\ Len(session_log) >= 2
    /\ session_log[1].Final_Outcome = "REJECTED"
    /\ session_log[1].Action_Taken = T_Reason
    /\ session_log[2].Final_Outcome = "REJECTED"

\* the text is the three letters of the word, each in either case, between
\* two runs of whitespace
IsWord(v, c1, c2, c3) ==
    \E a \in 0..Len(v) :
        /\ a + 3 <= Len(v)
        /\ \A i \in 1..a : v[i] \in Whitespace
        /\ \A i \in (a + 4)..Len(v) : v[i] \in Whitespace
        /\ v[a + 1] \in c1 /\ v[a + 2] \in c2 /\ v[a + 3] \in c3

\* the field, trimmed and compared without regard to case, is "Yes"; a
\* missing field is not
ParsesYes(cell) == cell.has /\ IsWord(cell.val, {"y", "Y"}, {"e", "E"}, {"s", "S"})

\* the field, trimmed and compared without regard to case, is "N/A"; a
\* missing field is
ParsesNA(cell) == ~cell.has \/ IsWord(cell.val, {"n", "N"}, {"/"}, {"a", "A"})

\* C20: each of the four flags of run_rules_engine is yes exactly when its
\* field, trimmed and compared without regard to case, is "Yes" (a missing
\* field is not yes); physical-card-present is the card field parsing as
\* yes and not as "N/A", which is the same as its parsing as yes.
C20_FlagParsing ==
    triage # <<>> =>
        LET row == RowOf(selected_org)
        IN /\ \A col \in FlagCols : yn(row, col) <=> ParsesYes(row[col])
           /\ has_account(row) <=> ParsesYes(row[COL_ACCOUNT])
           /\ is_pbi(row) <=> ParsesYes(row[COL_PBI])
           /\ is_tax(row) <=> ParsesYes(row[COL_TAX])
           /\ na(row, COL_CARD) <=> ParsesNA(row[COL_CARD])
           /\ has_phys_card(row)
                <=> (ParsesYes(row[COL_CARD]) /\ ~ParsesNA(row[COL_CARD]))
           /\ has_phys_card(row) <=> ParsesYes(row[COL_CARD])

C20_Witness ==
    /\ triage # <<>>
    /\ RowOf(selected_org)[COL_CARD] = Cell(T_YesPadded)
    /\ has_phys_card(RowOf(selected_org))
    /\ RowOf(selected_org)[COL_PBI] = Cell(T_NaN)
    /\ ~is_pbi(RowOf(selected_org))

\* C21: once the sending stage has run for an approval (the session log has
\* grown since "Approve & Send"), no later pass that starts in stage
\* "sending" dispatches the channels again: it records no channel result
\* and calls no service.
C21_DispatchedAtMostOnce ==
    [][ (stage = "sending" /\ terminal = "sending"
         /\ Len(session_log) > log_mark)
          => results' = NoResults /\ external_calls' = {}
      ]_vars

\* C22: a case approved while the execution mode was simulation is never
\* dispatched live: whenever the sending stage has run for a case, it ran in
\* the mode that was in force when "Approve & Send" was clicked (it called
\* the services and logged LIVE exactly when that mode was live).
C22_SentInApprovedMode ==
    (SendingPassRan /\ terminal = "sending")
        => /\ approved_mode \in {"LIVE", "SIMULATION"}
           /\ external_calls = ServicesCalled(approved_mode = "LIVE")
           /\ Last(session_log).Status = SentEntry(RowOf(selected_org),
                                                   approved_mode = "LIVE").Status

\* the stored drafts, subject, rule and template name come from the call
\* of generate_drafts that "Confirm" or "Apply" last made, and that call was
\* made for the selected record and the current ticket; a draft the agent
\* typed over holds the agent's text
StoredDraftsAreCurrent ==
    /\ drafted # <<>>
    /\ LET c == drafted[1]
           t == TriageOf(selected_org)
       IN /\ c.args[1] = selected_org
          /\ c.args[4] = ticket
          /\ c.out = generate_drafts(RowOf(selected_org), c.args[2], c.args[3],
                                     ticket, c.args[5])
          /\ email_draft \in {c.out.email, EDITED}
          /\ sms_draft \in {c.out.sms, EDITED}
          /\ vm_draft = c.out.vm
          /\ email_subject = c.out.subject
          /\ c.by = "Confirm"
                => /\ rule = t.rule
                   /\ template_name = t.template_name
                   /\ c.args[2] = t.template_body
                   /\ c.args[3] = t.subject
          /\ c.by = "Apply"
                => /\ StartsWithOverride(rule)
                   /\ template_name \in DOMAIN templates
                   /\ c.args[2] = templates[template_name].Body_Text
                   /\ c.args[3] = templates[template_name].Default_Subject
          \* on entering the stage nothing typed earlier is left
          /\ (stage = "draft" /\ rerun /\ clicked \in {"Confirm", "Apply"})
                => email_draft = c.out.email /\ sms_draft = c.out.sms

\* C23: whenever the stage is "draft" or "sending", the stored drafts,
\* subject, rule and template name were generated by the most recent
\* "Confirm" or "Apply" for the selected record and the current ticket.
C23_DraftsOfCurrentCase ==
    stage \in {"draft", "sending"} => StoredDraftsAreCurrent

\* a case for Acme was sent and logged, and the drafts of a later case for
\* Birch are shown in stage "draft"
C23_Witness ==
    /\ stage = "draft" /\ ~rerun /\ DATA_OK
    /\ session_log # <<>> /\ session_log[1].Org_ID = RowOf(ORG_A).CID
    /\ selected_org = ORG_B
    /\ StoredDraftsAreCurrent
    /\ sms_draft = EDITED

\* C24: the record filter of stage "select" agrees with the rules engine:
\* under "Clear" the selectbox lists exactly the records for which
\* run_rules_engine selects the standard template, under "Flagged" exactly
\* the others.
C24_FilterAgreesWithEngine ==
    (stage = "select" /\ DATA_OK /\ ~rerun /\ ~FilterRaises)
        => \A org \in DOMAIN db :
            LET standard ==
                    run_rules_engine(db[org], templates).template_name = TN_STANDARD
            IN /\ filter_opt = "Clear" => (org \in orgs <=> standard)
               /\ filter_opt = "Flagged" => (org \in orgs <=> ~standard)

\* C25: two cases started by two "Run Triage" actions never carry the same
\* ticket id; stated for a case and the case started before it: the ticket
\* "Run Triage" stores differs from the ticket of the case before.
C25_TicketsDistinct ==
    [][ (clicked' = "RunTriage" /\ DATA_OK' /\ stage' = "triage"
         /\ ticket # NONE)
          => ticket' # ticket
      ]_vars

=============================================================================
